---------------------------- MODULE Spec2Model ----------------------------
(***************************************************************************)
(* A model of the teaching programs of the repository:                     *)
(*   eval.cpp                 the CPUSim16Bit stub (registers, memory,     *)
(*                            word load/store, wrap16, empty run/execute)  *)
(*   OperatorOverloading.cpp  class Test and its main                      *)
(*   Inheritance/multilvl.cpp Student / StdMarks / StdResult and main      *)
(*   Inheritance/test1.cpp    Employee / EmpTeach / NonEmpTeach /          *)
(*                            Instructor and main                          *)
(*   solutions/1.cpp          the five "problems" and main                 *)
(* The programs are independent executables; `running` names the one a     *)
(* behaviour is about and only its part of the state ever changes.         *)
(***************************************************************************)
EXTENDS Integers, Sequences, FiniteSets, TLC

VARIABLES
    running,    \* which program (or which class under call) this behaviour runs
    last,       \* the call made by the latest step: [op, args, ret, cells, after]
    cpu,        \* the CPUSim16Bit object: AX, BX, CX, DX, memory, regmap, program
    beyond,     \* storage past the end of cpu.memory that a store has written
    obj,        \* the data members assigned so far: <<object, index, member>> -> value
    uninitRead, \* the data members that were read before any assignment
    out,        \* what the latest statement wrote to cout
    pc,         \* the statement of main to run next
    i,          \* main's loop variable
    count,      \* main's count (multilvl.cpp, test1.cpp)
    trace       \* the statements main has run, in order: <<call, index>>

vars == <<running, last, cpu, beyond, obj, uninitRead, out, pc, i, count, trace>>

cpuVars == <<cpu, beyond>>

demoVars == <<obj, uninitRead, out, pc, i, count, trace>>

(***************************************************************************)
(* Bounded inputs                                                          *)
(***************************************************************************)
\* addresses handed to storeWord / loadWord: both sides of both ends of the check
Addrs == {-1, 0, 65534, 65535, 65536}
\* values handed to storeWord
Values == {0, 1, 2, 258}
\* what a read past the end of the array may return besides what was stored there
UBVals == {7}
\* programs handed to loadProgram
Programs == {<< >>, <<"MOV AX, 5", "ADD AX, BX">>}
\* the largest magnitude of a Test value the calls on class Test produce
MaxVal == 6
\* the arguments Test(int) is given before those calls
TestVals == {-1, 0, 2, 3}
\* the largest count entered in multilvl.cpp and test1.cpp
MaxCount == 2
\* the counts entered: a negative one too
Counts == -1 .. MaxCount
\* roll numbers and employee ids entered
IDs == {1, 2}
\* names entered
Names == {"asha"}
\* the six marks entered for a student
MarkSheets == {<<0, 0, 0, 0, 0, 0>>, <<90, 80, 70, 60, 50, 41>>}
\* subject and department names entered
Subjects == {"cpp"}
Depts == {"cse"}
\* what main reads from cin: each statement takes the fields it asks for
Inputs == [count : Counts, id : IDs, name : Names, marks : MarkSheets,
           sub : Subjects, dept : Depts]
\* the largest number of days handed to Car::calculateFare(int, int)
MaxDays == 4
\* the days, distances and rates Car is called with
Days == -1 .. MaxDays
Distances == {0, 1, 100}
Rates == {0, 7, 15}
\* arguments of wrap16
WrapVals == {-65537, -65536, -65535, -2, -1, 0, 1, 65535, 65536, 65537, 131072}

(***************************************************************************)
(* C++ int operators used by eval.cpp                                      *)
(***************************************************************************)
RECURSIVE BitAndNat(_, _)
BitAndNat(a, b) ==
    IF a = 0 \/ b = 0 THEN 0
    ELSE (IF a % 2 = 1 /\ b % 2 = 1 THEN 1 ELSE 0)
         + 2 * BitAndNat(a \div 2, b \div 2)

RECURSIVE BitOrNat(_, _)
BitOrNat(a, b) ==
    IF a = 0 THEN b
    ELSE IF b = 0 THEN a
    ELSE (IF a % 2 = 1 \/ b % 2 = 1 THEN 1 ELSE 0)
         + 2 * BitOrNat(a \div 2, b \div 2)

\* a & b on two's complement ints, for a mask 0 <= b < 65536: the bits of a
\* above the mask do not matter, and a % 65536 is a's low 16 bits
BitAnd(a, b) == BitAndNat(a % 65536, b)

\* a | b for non-negative ints
BitOr(a, b) == BitOrNat(a, b)

\* a >> 8 (arithmetic shift: floor division)
Shr8(a) == a \div 256

\* a << 8
Shl8(a) == a * 256

\* a && b
LogicalAnd(a, b) == IF a # 0 /\ b # 0 THEN 1 ELSE 0

(***************************************************************************)
(* eval.cpp: class CPUSim16Bit                                             *)
(***************************************************************************)
\* int memory[65535]
MemSize == 65535

\* the upper limit of the range check in storeWord and loadWord
AddrLimit == 65535

MemIndex == 0 .. (MemSize - 1)

\* the object after its constructor; memory is kept sparse: a cell that is
\* not in the domain holds the 0 of its initializer
CPUInit ==
    [AX |-> 0, BX |-> 0, CX |-> 0, DX |-> 0,
     memory |-> << >>,
     regmap |-> [r \in {"AX", "BX", "CX", "DX"} |-> r],
     program |-> << >>]

\* the check without its lower bound
InRange_NoLowerBound(addr) == addr <= AddrLimit

\* the condition of the if in storeWord and loadWord
InRange(addr) == addr >= 0 /\ addr <= AddrLimit

\* memory[k] as an rvalue, k inside the array
MemGet(mem, k) == IF k \in DOMAIN mem THEN mem[k] ELSE 0

\* memory[k] = v, k inside the array
MemPut(mem, k, v) ==
    IF v = 0 THEN [j \in (DOMAIN mem) \ {k} |-> mem[j]]
    ELSE [j \in (DOMAIN mem) \cup {k} |-> IF j = k THEN v ELSE mem[j]]

\* the cells a word access at addr touches
WordCells(addr) == {addr, addr + 1}

\* the value storeWord puts in memory[addr]
LowByte(value) == LogicalAnd(value, 255)

\* the value storeWord puts in memory[addr+1]
HighByte(value) == BitAnd(Shr8(value), 255)

\* memory[k] = v for any k: inside the array it is the cell, outside it is
\* whatever storage lies there
Write(st, k, v) ==
    IF k \in MemIndex
    THEN [st EXCEPT !.cpu.memory = MemPut(st.cpu.memory, k, v)]
    ELSE [st EXCEPT !.beyond = MemPut(st.beyond, k, v)]

\* the values memory[k] may yield: the cell inside the array; outside it the
\* read is undefined and yields what lies there or anything else
ReadVals(st, k) ==
    IF k \in MemIndex THEN {MemGet(st.cpu.memory, k)}
    ELSE {MemGet(st.beyond, k)} \cup UBVals

\* the state storeWord(addr, value) leaves
StoreWordEffect(st, addr, value) ==
    IF InRange(addr)
    THEN Write(Write(st, addr, LowByte(value)), addr + 1, HighByte(value))
    ELSE st

\* the cells storeWord / loadWord touch
Touched(addr) == IF InRange(addr) THEN WordCells(addr) ELSE {}

\* the values loadWord(addr) may return
LoadWordResults(st, addr) ==
    IF InRange(addr)
    THEN {BitOr(Shl8(hi), lo) : hi \in ReadVals(st, addr + 1),
                                lo \in ReadVals(st, addr)}
    ELSE {0}

RECURSIVE Wrap16Loop(_)
\* while (val < 0) val += 65535;
Wrap16Loop(val) == IF val < 0 THEN Wrap16Loop(val + 65535) ELSE val

\* int wrap16(int val)
wrap16(val) == Wrap16Loop(val) % 65536

\* the body of run(): no statement
RunEffect(st) == st

\* an execute() that carries out the first program line
ExecuteEffect_RunsFirstLine(st) ==
    IF st.cpu.program # << >> THEN [st EXCEPT !.cpu.AX = 5] ELSE st

\* the body of execute(): no statement
ExecuteEffect(st) == st

\* the body of loadProgram: program = prog
LoadProgramEffect(st, prog) == [st EXCEPT !.cpu.program = prog]

\* the record of a call: its name, arguments, result, the memory cells it
\* touched and (for loadWord) the arguments of the storeWord right before it
Call(op, args, ret, cells, after) ==
    [op |-> op, args |-> args, ret |-> ret, cells |-> cells, after |-> after]

NoCall == Call("none", << >>, 0, {}, << >>)

CpuState == [cpu |-> cpu, beyond |-> beyond]

storeWord(addr, value) ==
    /\ running = "CPUSim16Bit"
    /\ LET st == StoreWordEffect(CpuState, addr, value)
       IN /\ cpu' = st.cpu
          /\ beyond' = st.beyond
    /\ last' = Call("storeWord", <<addr, value>>, 0, Touched(addr), << >>)
    /\ UNCHANGED <<running, demoVars>>

loadWord(addr) ==
    /\ running = "CPUSim16Bit"
    /\ \E r \in LoadWordResults(CpuState, addr) :
          last' = Call("loadWord", <<addr>>, r, Touched(addr),
                       IF last.op = "storeWord" THEN last.args ELSE << >>)
    /\ UNCHANGED <<running, cpuVars, demoVars>>

loadProgram(prog) ==
    /\ running = "CPUSim16Bit"
    /\ LET st == LoadProgramEffect(CpuState, prog)
       IN /\ cpu' = st.cpu
          /\ beyond' = st.beyond
    /\ last' = Call("loadProgram", <<prog>>, 0, {}, << >>)
    /\ UNCHANGED <<running, demoVars>>

run ==
    /\ running = "CPUSim16Bit"
    /\ LET st == RunEffect(CpuState)
       IN /\ cpu' = st.cpu
          /\ beyond' = st.beyond
    /\ last' = Call("run", << >>, 0, {}, << >>)
    /\ UNCHANGED <<running, demoVars>>

execute ==
    /\ running = "CPUSim16Bit"
    /\ LET st == ExecuteEffect(CpuState)
       IN /\ cpu' = st.cpu
          /\ beyond' = st.beyond
    /\ last' = Call("execute", << >>, 0, {}, << >>)
    /\ UNCHANGED <<running, demoVars>>

callWrap16(val) ==
    /\ running = "wrap16"
    /\ last' = Call("wrap16", <<val>>, wrap16(val), {}, << >>)
    /\ UNCHANGED <<running, cpuVars, demoVars>>

(***************************************************************************)
(* The demos: data members, reads of them, and cout                        *)
(***************************************************************************)
\* the demo state a statement starts from; out collects what it prints
DemoState == [obj |-> obj, uninitRead |-> uninitRead, out |-> << >>]

\* the data member m of element k of object (or array) o
Member(o, k, m) == <<o, k, m>>

\* member = v
Assign(st, p, v) ==
    [st EXCEPT !.obj = [q \in (DOMAIN st.obj) \cup {p} |->
                            IF q = p THEN v ELSE st.obj[q]]]

\* the members ps are read: one never assigned holds an indeterminate value
Read(st, ps) ==
    [st EXCEPT !.uninitRead = @ \cup {p \in ps : p \notin DOMAIN st.obj}]

\* the value a read of member p yields
Val(st, p) == IF p \in DOMAIN st.obj THEN st.obj[p] ELSE 0

\* cout << items
Cout(st, items) == [st EXCEPT !.out = @ \o items]

\* cout << member, ... : the members are read and their values written
CoutMembers(st, ps) == Cout(Read(st, {ps[k] : k \in DOMAIN ps}),
                            [k \in DOMAIN ps |-> Val(st, ps[k])])

\* the statement's effect becomes the new state
Commit(st) ==
    /\ obj' = st.obj
    /\ uninitRead' = st.uninitRead
    /\ out' = st.out

(***************************************************************************)
(* OperatorOverloading.cpp: class Test                                     *)
(***************************************************************************)
value(o) == Member(o, 0, "value")

\* Test(int i) { value = i; }
Test_Test(st, o, v) == Assign(st, value(o), v)

\* void display()
Test_display(st, o) == CoutMembers(Cout(st, <<"Value : ">>), <<value(o)>>)

\* Test operator +(Test &obj): value = value + obj.value; return value;
Test_plus(st, a, b) ==
    LET r  == Read(st, {value(a), value(b)})
        s  == Assign(r, value(a), Val(r, value(a)) + Val(r, value(b)))
    IN [st |-> Read(s, {value(a)}), ret |-> Val(s, value(a))]

\* a += that assigns obj.value instead of adding it
Test_plusAssign_Overwrites(st, a, b) ==
    LET r  == Read(st, {value(a), value(b)})
        s  == Assign(r, value(a), Val(r, value(b)))
    IN [st |-> Read(s, {value(a)}), ret |-> Val(s, value(a))]

\* Test operator +=(Test &obj): value = value + obj.value; return *this;
Test_plusAssign(st, a, b) ==
    LET r  == Read(st, {value(a), value(b)})
        s  == Assign(r, value(a), Val(r, value(a)) + Val(r, value(b)))
    IN [st |-> Read(s, {value(a)}), ret |-> Val(s, value(a))]

\* friend void operator ++(Test &obj1): obj1.value++;
Test_incr(st, a) ==
    LET r == Read(st, {value(a)})
    IN Assign(r, value(a), Val(r, value(a)) + 1)

\* friend ostream &operator <<(ostream &output, Test &obj1)
Test_insert(st, a) == CoutMembers(Cout(st, <<" Value : ">>), <<value(a)>>)

\* the statements of main, by the line each starts on: the state it leaves,
\* the call it makes and the statement that follows
OOMain(st, at) ==
    CASE at = "L63" ->
           [st |-> Test_Test(Test_Test(st, "T1", 10), "T2", 20),
            call |-> Call("Test", <<"T1", "T2">>, 0, {}, << >>), next |-> "L65"]
      [] at = "L65" ->
           [st |-> Test_display(Cout(st, <<"\nT1= ">>), "T1"),
            call |-> Call("display", <<"T1">>, 0, {}, << >>), next |-> "L67"]
      [] at = "L67" ->
           [st |-> Test_display(Cout(st, <<"\nT2= ">>), "T2"),
            call |-> Call("display", <<"T2">>, 0, {}, << >>), next |-> "L71"]
      [] at = "L71" ->
           LET r == Test_plusAssign(st, "T1", "T2")
           IN [st |-> r.st,
               call |-> Call("+=", <<"T1", "T2">>, r.ret, {}, << >>),
               next |-> "L73"]
      [] at = "L73" ->
           [st |-> Test_display(Cout(st, <<"\nT1= ">>), "T1"),
            call |-> Call("display", <<"T1">>, 0, {}, << >>), next |-> "L75"]
      [] at = "L75" ->
           [st |-> Test_display(Cout(st, <<"\nT2= ">>), "T2"),
            call |-> Call("display", <<"T2">>, 0, {}, << >>), next |-> "L78"]
      [] at = "L78" ->
           [st |-> Test_insert(st, "T1"),
            call |-> Call("<<", <<"T1">>, 0, {}, << >>), next |-> "L79"]
      [] at = "L79" ->
           [st |-> Test_incr(st, "T1"),
            call |-> Call("++", <<"T1">>, 0, {}, << >>), next |-> "L80"]
      [] at = "L80" ->
           [st |-> Test_insert(st, "T1"),
            call |-> Call("<<", <<"T1">>, 0, {}, << >>), next |-> "L82"]
      [] at = "L82" ->
           [st |-> Cout(st, <<"\n">>),
            call |-> Call("endl", << >>, 0, {}, << >>), next |-> "done"]

\* one statement of OperatorOverloading.cpp's main
OOMainStep ==
    /\ running = "OperatorOverloading"
    /\ pc # "done"
    /\ LET r == OOMain(DemoState, pc)
       IN /\ Commit(r.st)
          /\ last' = r.call
          /\ pc' = r.next
          /\ trace' = Append(trace, <<r.call.op, 0>>)
    /\ UNCHANGED <<running, cpuVars, i, count>>

\* the Test objects the calls below are made on
TestObjects == {"T1", "T2"}

\* whether v stays inside the modelled range of int values
InModelRange(v) == v >= -MaxVal /\ v <= MaxVal

\* a + b on any two Test objects (a and b may be the same object)
callPlus(a, b) ==
    /\ running = "Test"
    /\ LET r == Test_plus(DemoState, a, b)
       IN /\ InModelRange(r.ret)
          /\ Commit(r.st)
          /\ last' = Call("+", <<a, b>>, r.ret, {}, << >>)
    /\ UNCHANGED <<running, cpuVars, pc, i, count, trace>>

\* a += b on any two Test objects (a and b may be the same object)
callPlusAssign(a, b) ==
    /\ running = "Test"
    /\ LET r == Test_plusAssign(DemoState, a, b)
       IN /\ InModelRange(r.ret)
          /\ Commit(r.st)
          /\ last' = Call("+=", <<a, b>>, r.ret, {}, << >>)
    /\ UNCHANGED <<running, cpuVars, pc, i, count, trace>>

\* ++a
callIncr(a) ==
    /\ running = "Test"
    /\ LET st == Test_incr(DemoState, a)
       IN /\ InModelRange(Val(st, value(a)))
          /\ Commit(st)
          /\ last' = Call("++", <<a>>, 0, {}, << >>)
    /\ UNCHANGED <<running, cpuVars, pc, i, count, trace>>

\* a.display()
callDisplay(a) ==
    /\ running = "Test"
    /\ Commit(Test_display(DemoState, a))
    /\ last' = Call("display", <<a>>, 0, {}, << >>)
    /\ UNCHANGED <<running, cpuVars, pc, i, count, trace>>

\* cout << a
callInsert(a) ==
    /\ running = "Test"
    /\ Commit(Test_insert(DemoState, a))
    /\ last' = Call("<<", <<a>>, 0, {}, << >>)
    /\ UNCHANGED <<running, cpuVars, pc, i, count, trace>>

(***************************************************************************)
(* Loops of the form for(i=0;i<count;i++) in the mains                     *)
(***************************************************************************)
\* reaching the for statement: i = 0, then the test
ForEnter(n, body, exit) ==
    [i |-> 0, next |-> IF 0 < n THEN body ELSE exit]

\* the loop test as i <= count
ForNext_OffByOne(k, n, body, exit) ==
    [i |-> k + 1, next |-> IF k + 1 <= n THEN body ELSE exit]

\* after the last statement of the body: i++, then the test
ForNext(k, n, body, exit) ==
    [i |-> k + 1, next |-> IF k + 1 < n THEN body ELSE exit]

\* a float or double value num/den
Rat(num, den) == [num |-> num, den |-> den]

(***************************************************************************)
(* Inheritance/multilvl.cpp                                                *)
(***************************************************************************)
\* Student::getDetails: cin>>rollno; cin>>name
getDetails(st, o, k, in) ==
    Assign(Assign(Cout(st, <<"\nEnter RollNo: ">>), Member(o, k, "rollno"), in.id),
           Member(o, k, "name"), in.name)

\* Student::dispDetails
dispDetails(st, o, k) ==
    CoutMembers(Cout(st, <<"\n\tStudent Details">>),
                <<Member(o, k, "rollno"), Member(o, k, "name")>>)

\* the members s1 .. s6 of StdMarks
MarkMembers(o, k) ==
    <<Member(o, k, "s1"), Member(o, k, "s2"), Member(o, k, "s3"),
      Member(o, k, "s4"), Member(o, k, "s5"), Member(o, k, "s6")>>

RECURSIVE AssignAll(_, _, _)
\* ps[1] = vs[1]; ps[2] = vs[2]; ...
AssignAll(st, ps, vs) ==
    IF ps = << >> THEN st
    ELSE AssignAll(Assign(st, Head(ps), Head(vs)), Tail(ps), Tail(vs))

\* StdMarks::getMarks: cin>>s1 ... cin>>s6
getMarks(st, o, k, in) == AssignAll(st, MarkMembers(o, k), in.marks)

\* StdMarks::dispMarks
dispMarks(st, o, k) == CoutMembers(dispDetails(st, o, k), MarkMembers(o, k))

RECURSIVE SumVals(_, _)
SumVals(st, ps) ==
    IF ps = << >> THEN 0 ELSE Val(st, Head(ps)) + SumVals(st, Tail(ps))

\* StdResult::calc: per = (s1+s2+s3+s4+s5+s6)/6.0; cout << per
calc(st, o, k) ==
    LET ms == MarkMembers(o, k)
        r  == Read(st, {ms[j] : j \in DOMAIN ms})
        s  == Assign(r, Member(o, k, "per"), Rat(SumVals(r, ms), 6))
    IN CoutMembers(Cout(s, <<"\n\n Total Percentage : ">>),
                   <<Member(o, k, "per")>>)

\* delete[] o: the elements' members are gone
DeleteArray(st, o) ==
    [st EXCEPT !.obj = [q \in {p \in DOMAIN st.obj : p[1] # o} |-> st.obj[q]]]

\* the statement of multilvl.cpp's main at `at`: the state it leaves, the
\* call it makes, and i, count and the statement that follow
MultilvlMain(st, at, k, n, in) ==
    CASE at = "L77" ->
           [st |-> Cout(st, <<"\nEnter the no of Students : ">>),
            call |-> Call("cin>>count", <<in.count>>, 0, {}, << >>),
            i |-> k, count |-> in.count, next |-> "L80"]
      [] at = "L80" ->
           [st |-> st, call |-> Call("new[]", <<n>>, 0, {}, << >>),
            i |-> ForEnter(n, "L84", "L88").i, count |-> n,
            next |-> IF n < 0 THEN "aborted" ELSE ForEnter(n, "L84", "L88").next]
      [] at = "L84" ->
           [st |-> getDetails(st, "S", k, in),
            call |-> Call("getDetails", <<k>>, 0, {}, << >>),
            i |-> k, count |-> n, next |-> "L85"]
      [] at = "L85" ->
           [st |-> getMarks(st, "S", k, in),
            call |-> Call("getMarks", <<k>>, 0, {}, << >>),
            i |-> ForNext(k, n, "L84", "L88").i, count |-> n,
            next |-> ForNext(k, n, "L84", "L88").next]
      [] at = "L88" ->
           [st |-> st, call |-> Call("for", << >>, 0, {}, << >>),
            i |-> ForEnter(n, "L90", "L96").i, count |-> n,
            next |-> ForEnter(n, "L90", "L96").next]
      [] at = "L90" ->
           [st |-> dispMarks(st, "S", k),
            call |-> Call("dispMarks", <<k>>, 0, {}, << >>),
            i |-> k, count |-> n, next |-> "L91"]
      [] at = "L91" ->
           [st |-> calc(st, "S", k),
            call |-> Call("calc", <<k>>, 0, {}, << >>),
            i |-> ForNext(k, n, "L90", "L96").i, count |-> n,
            next |-> ForNext(k, n, "L90", "L96").next]
      [] at = "L96" ->
           [st |-> DeleteArray(st, "S"),
            call |-> Call("delete[]", << >>, 0, {}, << >>),
            i |-> k, count |-> n, next |-> "done"]

\* whether main has returned or the program was terminated
Ended == pc \in {"done", "aborted"}

\* one statement of a main that reads from cin
MainStep(r) ==
    /\ Commit(r.st)
    /\ last' = r.call
    /\ pc' = r.next
    /\ i' = r.i
    /\ count' = r.count
    /\ trace' = Append(trace, <<r.call.op, i>>)
    /\ UNCHANGED <<running, cpuVars>>

\* one statement of multilvl.cpp's main
MultilvlStep ==
    /\ running = "multilvl"
    /\ ~Ended
    /\ \E in \in Inputs : MainStep(MultilvlMain(DemoState, pc, i, count, in))

(***************************************************************************)
(* Inheritance/test1.cpp                                                   *)
(***************************************************************************)
\* a member of a base-class subobject: Instructor holds two Employee
\* subobjects, the one of NonEmpTeach and the one of EmpTeach
Sub(base, m) == <<base, m>>

\* Employee::getEmp on the Employee subobject of `base`
getEmp(st, o, k, base, in) ==
    Assign(Assign(Cout(st, <<"\nEnter the Details of the Employee">>),
                  Member(o, k, Sub(base, "empID")), in.id),
           Member(o, k, Sub(base, "name")), in.name)

\* Employee::printEmp on the Employee subobject of `base`
printEmp(st, o, k, base) ==
    CoutMembers(Cout(st, <<"\n=============Employee Info==============">>),
                <<Member(o, k, Sub(base, "empID")),
                  Member(o, k, Sub(base, "name"))>>)

\* Employee::getName on the Employee subobject of `base`: the member returned
getName(o, k, base) == Member(o, k, Sub(base, "name"))

\* EmpTeach::getTeach: getEmp(); cin>>sub_name; strcpy(t_name, getName())
getTeach(st, o, k, in) ==
    LET e == getEmp(st, o, k, "EmpTeach::Employee", in)
        s == Assign(e, Member(o, k, Sub("EmpTeach", "sub_name")), in.sub)
        r == Read(s, {getName(o, k, "EmpTeach::Employee")})
    IN Assign(r, Member(o, k, Sub("EmpTeach", "t_name")),
              Val(r, getName(o, k, "EmpTeach::Employee")))

\* EmpTeach::dispEmpTeach
dispEmpTeach(st, o, k) ==
    CoutMembers(printEmp(st, o, k, "EmpTeach::Employee"),
                <<Member(o, k, Sub("EmpTeach", "sub_name")),
                  Member(o, k, Sub("EmpTeach", "t_name"))>>)

\* NonEmpTeach::getNonEmp: cin>>dept_name
getNonEmp(st, o, k, in) ==
    Assign(Cout(st, <<"\nEnter Dept Name : ">>),
           Member(o, k, Sub("NonEmpTeach", "dept_name")), in.dept)

\* a dispNonETeach that prints its own Employee subobject, as dispEmpTeach does
dispNonETeach_PrintsEmployee(st, o, k) ==
    CoutMembers(printEmp(st, o, k, "NonEmpTeach::Employee"),
                <<Member(o, k, Sub("NonEmpTeach", "dept_name"))>>)

\* NonEmpTeach::dispNonETeach
dispNonETeach(st, o, k) ==
    CoutMembers(Cout(st, <<"\nDept Name : ">>),
                <<Member(o, k, Sub("NonEmpTeach", "dept_name"))>>)

\* Instructor::getInstDetails
getInstDetails(st, o, k, in) == getNonEmp(getTeach(st, o, k, in), o, k, in)

\* Instructor::dispInstDetails
dispInstDetails(st, o, k) == dispNonETeach(dispEmpTeach(st, o, k), o, k)

\* the statement of test1.cpp's main at `at`
Test1Main(st, at, k, n, in) ==
    CASE at = "L100" ->
           [st |-> Cout(st, <<"\nEnter the number of Instructor">>),
            call |-> Call("cin>>count", <<in.count>>, 0, {}, << >>),
            i |-> k, count |-> in.count, next |-> "L103"]
      [] at = "L103" ->
           [st |-> st, call |-> Call("new[]", <<n>>, 0, {}, << >>),
            i |-> ForEnter(n, "L107", "L110").i, count |-> n,
            next |-> IF n < 0 THEN "aborted" ELSE ForEnter(n, "L107", "L110").next]
      [] at = "L107" ->
           [st |-> getInstDetails(st, "inst", k, in),
            call |-> Call("getInstDetails", <<k>>, 0, {}, << >>),
            i |-> ForNext(k, n, "L107", "L110").i, count |-> n,
            next |-> ForNext(k, n, "L107", "L110").next]
      [] at = "L110" ->
           [st |-> st, call |-> Call("for", << >>, 0, {}, << >>),
            i |-> ForEnter(n, "L112", "done").i, count |-> n,
            next |-> ForEnter(n, "L112", "done").next]
      [] at = "L112" ->
           [st |-> dispInstDetails(st, "inst", k),
            call |-> Call("dispInstDetails", <<k>>, 0, {}, << >>),
            i |-> k, count |-> n, next |-> "L113"]
      [] at = "L113" ->
           [st |-> Cout(st, <<"\n">>),
            call |-> Call("endl", << >>, 0, {}, << >>),
            i |-> ForNext(k, n, "L112", "done").i, count |-> n,
            next |-> ForNext(k, n, "L112", "done").next]

\* one statement of test1.cpp's main
Test1Step ==
    /\ running = "test1"
    /\ ~Ended
    /\ \E in \in Inputs : MainStep(Test1Main(DemoState, pc, i, count, in))

(***************************************************************************)
(* solutions/1.cpp                                                         *)
(***************************************************************************)
\* Student(int r, string n, int a) : rollNo(r), name(n), age(a)
Student_Student(st, o, r, n, a) ==
    AssignAll(st, <<Member(o, 0, "rollNo"), Member(o, 0, "name"),
                    Member(o, 0, "age")>>, <<r, n, a>>)

\* Student::display
Student_display(st, o) ==
    CoutMembers(Cout(st, <<"Student Info:\n">>),
                <<Member(o, 0, "rollNo"), Member(o, 0, "name"),
                  Member(o, 0, "age")>>)

\* Marks::calculate: total = m1 + m2 + m3; avg = total / 3.0
Marks_calculate(st, o) ==
    LET ms == <<Member(o, 0, "m1"), Member(o, 0, "m2"), Member(o, 0, "m3")>>
        r  == Read(st, {ms[j] : j \in DOMAIN ms})
        t  == Assign(r, Member(o, 0, "total"), SumVals(r, ms))
        u  == Read(t, {Member(o, 0, "total")})
    IN Assign(u, Member(o, 0, "avg"), Rat(Val(u, Member(o, 0, "total")), 3))

\* Marks(r, n, a, a1, a2, a3) : Student(r, n, a), m1(a1), m2(a2), m3(a3) { calculate(); }
Marks_Marks(st, o, r, n, a, a1, a2, a3) ==
    Marks_calculate(
        AssignAll(Student_Student(st, o, r, n, a),
                  <<Member(o, 0, "m1"), Member(o, 0, "m2"), Member(o, 0, "m3")>>,
                  <<a1, a2, a3>>), o)

\* Marks::display(bool full)
Marks_display(st, o, full) ==
    IF ~full THEN Student_display(st, o)
    ELSE CoutMembers(Cout(st, <<"\nFull Result:\n">>),
                     <<Member(o, 0, "total"), Member(o, 0, "avg")>>)

\* Employee(int id, string n) : empId(id), name(n)
Employee_Employee(st, o, id, n) ==
    AssignAll(st, <<Member(o, 0, "empId"), Member(o, 0, "name")>>, <<id, n>>)

\* Developer's own part of Developer(id, n, hrs): codingHours(hrs); its
\* initializer of the virtual base Employee is run by the most derived class
Developer_Developer(st, o, hrs) == Assign(st, Member(o, 0, "codingHours"), hrs)

\* Manager's own part of Manager(id, n, size): teamSize(size)
Manager_Manager(st, o, size) == Assign(st, Member(o, 0, "teamSize"), size)

\* TechLead(id, n, hrs, size) : Employee(id, n), Developer(id, n, hrs), Manager(id, n, size)
TechLead_TechLead(st, o, id, n, hrs, size) ==
    Manager_Manager(Developer_Developer(Employee_Employee(st, o, id, n), o, hrs),
                    o, size)

\* TechLead::calculateSalary()
TechLead_calculateSalary(st, o) ==
    LET s == CoutMembers(Cout(st, <<"\nTech Lead Info:">>),
                         <<Member(o, 0, "empId"), Member(o, 0, "name")>>)
        r == Read(s, {Member(o, 0, "codingHours")})
    IN Cout(r, <<"\nSalary based on coding: ",
                 Val(r, Member(o, 0, "codingHours")) * 500>>)

\* TechLead::calculateSalary(bool includeTeam)
TechLead_calculateSalary_bool(st, o, includeTeam) ==
    IF includeTeam
    THEN LET r == Read(st, {Member(o, 0, "codingHours"), Member(o, 0, "teamSize")})
         IN Cout(r, <<"Salary based on coding + team: ",
                      Val(r, Member(o, 0, "codingHours")) * 500
                      + Val(r, Member(o, 0, "teamSize")) * 5000>>)
    ELSE st

\* Vehicle(string id, string t, int rate) : vehicleId(id), type(t), ratePerKm(rate)
Vehicle_Vehicle(st, o, id, t, rate) ==
    AssignAll(st, <<Member(o, 0, "vehicleId"), Member(o, 0, "type"),
                    Member(o, 0, "ratePerKm")>>, <<id, t, rate>>)

\* Car(string id, string t, int rate) : Vehicle(id, t, rate)
Car_Car(st, o, id, t, rate) == Vehicle_Vehicle(st, o, id, t, rate)

\* Car::calculateFare(int distance)
Car_calculateFare(st, o, distance) ==
    LET r == Read(st, {Member(o, 0, "ratePerKm")})
    IN Cout(r, <<"Fare without discount: ",
                 distance * Val(r, Member(o, 0, "ratePerKm"))>>)

\* the discount from two days on
LongTerm_FromTwoDays(days) == days >= 2

\* the condition of the discount: if (days > 2)
LongTerm(days) == days > 2

\* fare *= 0.9
Discounted(fare) == Rat(fare.num * 9, fare.den * 10)

\* Car::calculateFare(int distance, int days)
Car_calculateFare_days(st, o, distance, days) ==
    LET r    == Read(st, {Member(o, 0, "ratePerKm")})
        fare == Rat(distance * Val(r, Member(o, 0, "ratePerKm")), 1)
    IN Cout(r, <<"Fare with long-term discount: ",
                 IF LongTerm(days) THEN Discounted(fare) ELSE fare>>)

\* Book(string id, string t) : bookId(id), title(t)
Book_Book(st, o, id, t) ==
    AssignAll(st, <<Member(o, 0, "bookId"), Member(o, 0, "title")>>, <<id, t>>)

\* Publisher(string n, string c) : name(n), city(c)
Publisher_Publisher(st, o, n, c) ==
    AssignAll(st, <<Member(o, 0, "name"), Member(o, 0, "city")>>, <<n, c>>)

\* LibraryItem(id, t, n, c) : Book(id, t), Publisher(n, c)
LibraryItem_LibraryItem(st, o, id, t, n, c) ==
    Publisher_Publisher(Book_Book(st, o, id, t), o, n, c)

\* LibraryItem::displayDetails
LibraryItem_displayDetails(st, o) ==
    CoutMembers(Cout(st, <<"\nLibrary Entry:\n">>),
                <<Member(o, 0, "bookId"), Member(o, 0, "title"),
                  Member(o, 0, "name"), Member(o, 0, "city")>>)

\* Department(string name, int count) : deptName(name), numberOfStudents(count)
Department_Department(st, o, name, n) ==
    AssignAll(st, <<Member(o, 0, "deptName"), Member(o, 0, "numberOfStudents")>>,
              <<name, n>>)

\* Placement(string name, int total, int p) : Department(name, total), placed(p)
Placement_Placement(st, o, name, total, p) ==
    Assign(Department_Department(st, o, name, total), Member(o, 0, "placed"), p)

\* Placement::placementStats()
Placement_placementStats(st, o) ==
    LET r == Read(st, {Member(o, 0, "placed"), Member(o, 0, "numberOfStudents")})
        percent == Rat(Val(r, Member(o, 0, "placed")) * 100,
                       Val(r, Member(o, 0, "numberOfStudents")))
    IN Cout(CoutMembers(Cout(r, <<"\nDepartment: ">>), <<Member(o, 0, "deptName")>>),
            <<"\nPlacement Percentage: ", percent>>)

\* Placement::placementStats(bool gap)
Placement_placementStats_bool(st, o, gap) ==
    IF gap
    THEN LET r == Read(st, {Member(o, 0, "placed"), Member(o, 0, "numberOfStudents")})
         IN Cout(r, <<"Placement Gap: ",
                      Val(r, Member(o, 0, "numberOfStudents"))
                      - Val(r, Member(o, 0, "placed"))>>)
    ELSE st

\* the statement of solutions/1.cpp's main at `at`
Sol1Main(st, at) ==
    CASE at = "L161" ->
           [st |-> Marks_Marks(st, "m1", 101, "Alice", 20, 89, 76, 91),
            call |-> Call("Marks", <<"m1">>, 0, {}, << >>), next |-> "L162"]
      [] at = "L162" ->
           [st |-> Marks_display(st, "m1", FALSE),
            call |-> Call("display(bool)", <<"m1", FALSE>>, 0, {}, << >>),
            next |-> "L163"]
      [] at = "L163" ->
           [st |-> Marks_display(st, "m1", TRUE),
            call |-> Call("display(bool)", <<"m1", TRUE>>, 0, {}, << >>),
            next |-> "L166"]
      [] at = "L166" ->
           [st |-> TechLead_TechLead(st, "t1", 501, "Rajesh", 120, 5),
            call |-> Call("TechLead", <<"t1">>, 0, {}, << >>), next |-> "L167"]
      [] at = "L167" ->
           [st |-> TechLead_calculateSalary(st, "t1"),
            call |-> Call("calculateSalary()", <<"t1">>, 0, {}, << >>),
            next |-> "L168"]
      [] at = "L168" ->
           [st |-> TechLead_calculateSalary_bool(st, "t1", TRUE),
            call |-> Call("calculateSalary(bool)", <<"t1", TRUE>>, 0, {}, << >>),
            next |-> "L171"]
      [] at = "L171" ->
           [st |-> Car_Car(st, "c1", "C100", "Car", 15),
            call |-> Call("Car", <<"c1">>, 0, {}, << >>), next |-> "L172"]
      [] at = "L172" ->
           [st |-> Car_calculateFare(st, "c1", 100),
            call |-> Call("calculateFare(int)", <<"c1", 100>>, 0, {}, << >>),
            next |-> "L173"]
      [] at = "L173" ->
           [st |-> Car_calculateFare_days(st, "c1", 100, 3),
            call |-> Call("calculateFare(int,int)", <<"c1", 100, 3>>, 0, {}, << >>),
            next |-> "L176"]
      [] at = "L176" ->
           [st |-> LibraryItem_LibraryItem(st, "l1", "B123", "Modern C++",
                                           "Pearson", "New Delhi"),
            call |-> Call("LibraryItem", <<"l1">>, 0, {}, << >>), next |-> "L177"]
      [] at = "L177" ->
           [st |-> LibraryItem_displayDetails(st, "l1"),
            call |-> Call("displayDetails", <<"l1">>, 0, {}, << >>),
            next |-> "L180"]
      [] at = "L180" ->
           [st |-> Placement_Placement(st, "p1", "CSE", 120, 98),
            call |-> Call("Placement", <<"p1">>, 0, {}, << >>), next |-> "L181"]
      [] at = "L181" ->
           [st |-> Placement_placementStats(st, "p1"),
            call |-> Call("placementStats()", <<"p1">>, 0, {}, << >>),
            next |-> "L182"]
      [] at = "L182" ->
           [st |-> Placement_placementStats_bool(st, "p1", TRUE),
            call |-> Call("placementStats(bool)", <<"p1", TRUE>>, 0, {}, << >>),
            next |-> "done"]

\* one statement of solutions/1.cpp's main
Sol1Step ==
    /\ running = "solutions1"
    /\ pc # "done"
    /\ LET r == Sol1Main(DemoState, pc)
       IN /\ Commit(r.st)
          /\ last' = r.call
          /\ pc' = r.next
          /\ trace' = Append(trace, <<r.call.op, 0>>)
    /\ UNCHANGED <<running, cpuVars, i, count>>

\* c1.calculateFare(distance) on a Car of any rate
callCalculateFare(distance) ==
    /\ running = "Car"
    /\ Commit(Car_calculateFare(DemoState, "c1", distance))
    /\ last' = Call("calculateFare(int)", <<"c1", distance>>, 0, {}, << >>)
    /\ UNCHANGED <<running, cpuVars, pc, i, count, trace>>

\* c1.calculateFare(distance, days) on a Car of any rate
callCalculateFareDays(distance, days) ==
    /\ running = "Car"
    /\ Commit(Car_calculateFare_days(DemoState, "c1", distance, days))
    /\ last' = Call("calculateFare(int,int)", <<"c1", distance, days>>, 0, {}, << >>)
    /\ UNCHANGED <<running, cpuVars, pc, i, count, trace>>

(***************************************************************************)
(* The specification                                                       *)
(***************************************************************************)
\* before any object is constructed
NoObjects == [obj |-> << >>, uninitRead |-> {}, out |-> << >>]

\* the data members a program's objects hold when its calls start: the calls
\* on class Test are made on two constructed Test objects, those on class Car
\* on a constructed Car; a main starts with none
InitObjs(r) ==
    CASE r = "Test" ->
           {Test_Test(Test_Test(NoObjects, "T1", v1), "T2", v2).obj :
               v1 \in TestVals, v2 \in TestVals}
      [] r = "Car" ->
           {Car_Car(NoObjects, "c1", "C100", "Car", rate).obj : rate \in Rates}
      [] OTHER -> {<< >>}

\* the first statement of each main
InitPc(r) ==
    CASE r = "OperatorOverloading" -> "L63"
      [] r = "multilvl" -> "L77"
      [] r = "test1" -> "L100"
      [] r = "solutions1" -> "L161"
      [] OTHER -> "none"

Init ==
    /\ running \in {"CPUSim16Bit", "wrap16", "Test", "OperatorOverloading",
                    "multilvl", "test1", "solutions1", "Car"}
    /\ last = NoCall
    /\ cpu = CPUInit
    /\ beyond = << >>
    /\ obj \in InitObjs(running)
    /\ uninitRead = {}
    /\ out = << >>
    /\ pc = InitPc(running)
    /\ i = 0
    /\ count = 0
    /\ trace = << >>

Next ==
    \/ \E addr \in Addrs, v \in Values : storeWord(addr, v)
    \/ \E addr \in Addrs : loadWord(addr)
    \/ \E prog \in Programs : loadProgram(prog)
    \/ run
    \/ execute
    \/ \E val \in WrapVals : callWrap16(val)
    \/ OOMainStep
    \/ \E a \in TestObjects, b \in TestObjects : callPlus(a, b)
    \/ \E a \in TestObjects, b \in TestObjects : callPlusAssign(a, b)
    \/ \E a \in TestObjects : callIncr(a)
    \/ \E a \in TestObjects : callDisplay(a)
    \/ \E a \in TestObjects : callInsert(a)
    \/ MultilvlStep
    \/ Test1Step
    \/ Sol1Step
    \/ \E d \in Distances : callCalculateFare(d)
    \/ \E d \in Distances, days \in Days : callCalculateFareDays(d, days)

Spec == Init /\ [][Next]_vars

\* main runs its statements one after the other; cin is given its input
FairSpec == Spec /\ WF_vars(MultilvlStep) /\ WF_vars(Test1Step)

(***************************************************************************)
(* Properties                                                              *)
(***************************************************************************)
IsPrefix(s, t) == Len(s) <= Len(t) /\ SubSeq(t, 1, Len(s)) = s

\* the address of the latest storeWord / loadWord call
LastAddr == last.args[1]

\* C1: a word is stored low byte first, so that for every addr whose two
\* cells lie in the array and every value in 0..65535, storeWord(addr, value)
\* leaves value & 0xFF in memory[addr] and bits 8..15 in memory[addr+1], and
\* a loadWord(addr) right after it returns value.
C1_StoreThenLoadReturnsValue ==
    /\ (/\ last.op = "storeWord"
        /\ LastAddr >= 0 /\ LastAddr + 1 < MemSize
        /\ last.args[2] \in 0 .. 65535)
       => /\ MemGet(cpu.memory, LastAddr) = last.args[2] % 256
          /\ MemGet(cpu.memory, LastAddr + 1) = (last.args[2] \div 256) % 256
    /\ (/\ last.op = "loadWord"
        /\ Len(last.after) = 2
        /\ last.after[1] = LastAddr
        /\ LastAddr >= 0 /\ LastAddr + 1 < MemSize
        /\ last.after[2] \in 0 .. 65535)
       => last.ret = last.after[2]

\* C2: for every addr, storeWord and loadWord touch only cells k of memory
\* with 0 <= k < 65535, the addr+1 cell included.
C2_AccessesInsideMemory ==
    last.op \in {"storeWord", "loadWord"}
        => \A k \in last.cells : 0 <= k /\ k < 65535

C3_Step ==
    (/\ last'.op \in {"storeWord", "loadWord"}
     /\ (last'.args[1] < 0 \/ last'.args[1] > 65535))
    => /\ cpu' = cpu
       /\ beyond' = beyond
       /\ (last'.op = "loadWord" => last'.ret = 0)

\* C3: with addr < 0 or addr > 65535, storeWord changes no memory cell, no
\* register and not the program, and loadWord returns 0 and changes nothing.
C3_OutOfRangeIgnored == [][C3_Step]_vars

\* a loadWord below the range right after a storeWord of a non-zero value
\* above it, with memory and program already written
C3_Witness ==
    /\ last.op = "loadWord"
    /\ LastAddr < 0
    /\ last.ret = 0
    /\ Len(last.after) = 2
    /\ last.after[1] > 65535
    /\ last.after[2] # 0
    /\ DOMAIN cpu.memory # {}
    /\ cpu.program # << >>

C4_Step ==
    /\ last'.op \in {"run", "execute"} => (cpu' = cpu /\ beyond' = beyond)
    /\ last'.op = "loadProgram"
         => /\ cpu' = [cpu EXCEPT !.program = last'.args[1]]
            /\ beyond' = beyond

\* C4: run() and execute() leave the registers, the memory and the program
\* as they are, whatever was loaded, and loadProgram(prog) changes only the
\* program, which becomes prog.
C4_StubsChangeNothing == [][C4_Step]_vars

\* execute() was called with a program loaded and memory written
C4_Witness ==
    /\ last.op = "execute"
    /\ Len(cpu.program) = 2
    /\ DOMAIN cpu.memory # {}

RECURSIVE Pairs(_, _, _, _)
\* <<a, k>>, <<b, k>> for k, k+1, ..., n-1
Pairs(a, b, k, n) ==
    IF k >= n THEN << >>
    ELSE <<(<<a, k>>), (<<b, k>>)>> \o Pairs(a, b, k + 1, n)

RECURSIVE Singles(_, _, _)
\* <<a, k>> for k, k+1, ..., n-1
Singles(a, k, n) ==
    IF k >= n THEN << >> ELSE <<(<<a, k>>)>> \o Singles(a, k + 1, n)

IsStudentCall(e) == e[1] \in {"getDetails", "getMarks", "dispMarks", "calc"}

IsInstructorCall(e) == e[1] \in {"getInstDetails", "dispInstDetails"}

\* the calls main is to make for a count of n
MultilvlCalls(n) ==
    Pairs("getDetails", "getMarks", 0, n) \o Pairs("dispMarks", "calc", 0, n)

Test1Calls(n) ==
    Singles("getInstDetails", 0, n) \o Singles("dispInstDetails", 0, n)

C6_Order ==
    /\ running = "multilvl"
       => /\ IsPrefix(SelectSeq(trace, IsStudentCall), MultilvlCalls(count))
          /\ pc = "done" => SelectSeq(trace, IsStudentCall) = MultilvlCalls(count)
    /\ running = "test1"
       => /\ IsPrefix(SelectSeq(trace, IsInstructorCall), Test1Calls(count))
          /\ pc = "done" => SelectSeq(trace, IsInstructorCall) = Test1Calls(count)

\* C6: for a count n >= 0 the mains of multilvl.cpp and test1.cpp make the n
\* reads for elements 0 .. n-1 in order, then the n displays in the same
\* order, each once, and then return.
C6_ReadDisplayExit ==
    /\ []C6_Order
    /\ (running \in {"multilvl", "test1"})
         ~> (pc = "done" \/ (pc = "aborted" /\ count < 0))

\* multilvl.cpp's main has returned after two students
C6_Witness ==
    /\ running = "multilvl"
    /\ pc = "done"
    /\ count = 2
    /\ Len(trace) = 12

\* the value of Test object o
TestValue(o) == obj[value(o)]

C7_Step ==
    running \in {"Test", "OperatorOverloading"} =>
        /\ (last'.op = "+=" /\ last'.args[1] # last'.args[2])
           => /\ obj' = [obj EXCEPT ![value(last'.args[1])] =
                            TestValue(last'.args[1]) + TestValue(last'.args[2])]
              /\ last'.ret = TestValue(last'.args[1]) + TestValue(last'.args[2])
        /\ last'.op = "++"
           => obj' = [obj EXCEPT ![value(last'.args[1])] = @ + 1]
        /\ last'.op \in {"<<", "display"} => obj' = obj

\* C7: for distinct a and b, a += b sets a.value to a.value + b.value,
\* leaves b.value and returns a Test of the new a.value; ++a adds exactly 1
\* to a.value and changes nothing else; cout << a and display() change no
\* value; main ends with T1.value = 31 and T2.value = 20.
C7_CompoundAssignAndIncrement ==
    /\ [][C7_Step]_vars
    /\ [](running = "OperatorOverloading" /\ pc = "done"
            => TestValue("T1") = 31 /\ TestValue("T2") = 20)

\* T1 += T2 was made on two objects with T2.value not 0
C7_Witness ==
    /\ running = "Test"
    /\ last.op = "+="
    /\ last.args = <<"T1", "T2">>
    /\ TestValue("T2") = 3
    /\ TestValue("T1") = 5

C8_Step ==
    (running = "Test" /\ last'.op = "+" /\ last'.args[1] # last'.args[2])
    => /\ last'.ret = TestValue(last'.args[1]) + TestValue(last'.args[2])
       /\ obj' = obj

\* C8: a + b returns a Test of value a.value + b.value and leaves a.value
\* and b.value as they were (stated here for distinct objects a and b, the
\* case in which nothing else could explain a change of a.value).
C8_PlusHasNoSideEffect == [][C8_Step]_vars

\* the fare the latest calculateFare call wrote
LastFare == out[2]

\* the rate of the Car the latest call was made on
LastRate == obj[Member(last.args[1], 0, "ratePerKm")]

C9_Fare ==
    /\ last.op = "calculateFare(int)" => LastFare = last.args[2] * LastRate
    /\ (last.op = "calculateFare(int,int)" /\ last.args[3] <= 2)
         => LastFare.num = last.args[2] * LastRate * LastFare.den
    /\ (last.op = "calculateFare(int,int)" /\ last.args[3] > 2)
         => 10 * LastFare.num = 9 * last.args[2] * LastRate * LastFare.den

C9_Step ==
    last'.op \in {"calculateFare(int)", "calculateFare(int,int)"} => obj' = obj

\* C9: calculateFare(distance, days) writes distance * ratePerKm when
\* days <= 2 and nine tenths of it when days > 2, calculateFare(distance)
\* writes distance * ratePerKm, and neither changes a field of the Car.
C9_DiscountWhenMoreThanTwoDays ==
    /\ []C9_Fare
    /\ [][C9_Step]_vars

\* a fare that is not 0 was computed for exactly two days
C9_Witness ==
    /\ running = "Car"
    /\ last.op = "calculateFare(int,int)"
    /\ last.args[3] = 2
    /\ LastFare.num = 700

\* C10: wrap16(val) returns r with 0 <= r <= 65535 and r congruent to val
\* modulo 65536.
C10_Wrap16Reduces ==
    last.op = "wrap16"
        => /\ last.ret \in 0 .. 65535
           /\ last.ret % 65536 = last.args[1] % 65536

=============================================================================
